---- MODULE Spec2Model ----
(***************************************************************************)
(* Model of the narrated-walkthrough generator: the timing utilities       *)
(* (utils/timing.ts), the speech front end (tts.ts, generators/audio.ts),  *)
(* the video compiler (generators/compiler.ts), the video stage            *)
(* (stages/video.ts) and the two tool handlers of the server (index.ts).   *)
(*                                                                         *)
(* Text.  A narration is a sequence of tokens, each standing for a literal *)
(* substring of the JavaScript string:                                     *)
(*     "O" = "[[slnc "   (the opening of a silence marker, blank included) *)
(*     "o" = "[[slnc"    (what trim() leaves of a trailing "O")            *)
(*     "C" = "]]"        "1", "5" = the digits      "w" = a letter         *)
(*     "s" = " "                                                           *)
(* '[' occurs only in "O"/"o" and ']' only in "C", so the matches of       *)
(* /\[\[slnc \d+\]\]/ in the string are exactly the token runs O D+ C.     *)
(*                                                                         *)
(* Time.  Durations are exact multiples of 1/SecUnits second; a value that *)
(* the code obtains by a division is kept as a pair <<num, den>>.          *)
(***************************************************************************)
EXTENDS Integers, Sequences, FiniteSets, TLC

(* ------------------------------ bounds --------------------------------- *)

\* analysis.files holds 0..MaxFiles entries (so a run has 2..MaxFiles+2 frames)
MaxFiles == 1

\* Date.now() takes the values 0..MaxClock
MaxClock == 1

\* at most this many removals fail inside one cleanupTempFiles call
MaxRmFail == 1

(* ------------------------------ text ----------------------------------- *)

\* 1/SecUnits second is the unit of time: 13 * 17 * 1000
SecUnits == 13 * 17 * 1000

Digits == {"1", "5"}

DigitVal(t) == IF t = "1" THEN 1 ELSE 5

IsDigit(t) == t \in Digits

\* the characters of a token, as "is it white space"
IsSpaceChars(t) ==
    CASE t = "s" -> <<TRUE>>
      [] t = "O" -> <<FALSE, TRUE>>
      [] OTHER   -> <<FALSE>>

RECURSIVE IsSpaceSeq(_)
IsSpaceSeq(s) ==
    IF s = <<>> THEN <<>> ELSE IsSpaceChars(Head(s)) \o IsSpaceSeq(Tail(s))

\* first index >= i whose token is no digit (Len(s)+1 when there is none)
RECURSIVE DigitsEnd(_, _)
DigitsEnd(s, i) ==
    IF i > Len(s) \/ ~IsDigit(s[i]) THEN i ELSE DigitsEnd(s, i + 1)

\* /\[\[slnc \d+\]\]/ anchored at token i: the index of its "]]", or 0
MarkerEndAt(s, i) ==
    IF i > Len(s) \/ s[i] # "O" THEN 0
    ELSE LET k == DigitsEnd(s, i + 1)
         IN  IF k > i + 1 /\ k <= Len(s) /\ s[k] = "C" THEN k ELSE 0

\* the matches of the global regex from token p on, leftmost first, never
\* overlapping: a sequence of <<first, last>> index pairs
RECURSIVE MarkerMatches(_, _)
MarkerMatches(s, p) ==
    IF p > Len(s) THEN <<>>
    ELSE IF MarkerEndAt(s, p) # 0
         THEN <<<<p, MarkerEndAt(s, p)>>>> \o MarkerMatches(s, MarkerEndAt(s, p) + 1)
         ELSE MarkerMatches(s, p + 1)

\* parseInt of the digits of the marker s[m[1]..m[2]]
RECURSIVE DigitsValue(_, _, _)
DigitsValue(s, i, j) ==
    IF i > j THEN 0 ELSE DigitsValue(s, i, j - 1) * 10 + DigitVal(s[j])

MarkerMs(s, m) == DigitsValue(s, m[1] + 1, m[2] - 1)

SubTokens(s, i, j) == IF i > j THEN <<>> ELSE SubSeq(s, i, j)

\* String.prototype.replace(/\[\[slnc \d+\]\]/g, ''): one left-to-right pass
RECURSIVE RemoveMatches(_, _, _)
RemoveMatches(s, ms, p) ==
    IF ms = <<>> THEN SubTokens(s, p, Len(s))
    ELSE SubTokens(s, p, Head(ms)[1] - 1) \o RemoveMatches(s, Tail(ms), Head(ms)[2] + 1)

ReplaceMarkers(s) == RemoveMatches(s, MarkerMatches(s, 1), 1)

\* a split on the regex without its capture group: the text parts only
RECURSIVE SplitPartsNoCapture(_, _, _)
SplitPartsNoCapture(s, ms, p) ==
    IF ms = <<>> THEN << SubTokens(s, p, Len(s)) >>
    ELSE << SubTokens(s, p, Head(ms)[1] - 1) >>
         \o SplitPartsNoCapture(s, Tail(ms), Head(ms)[2] + 1)

\* String.prototype.split(/(\[\[slnc \d+\]\])/): text, marker, text, ...
RECURSIVE SplitParts(_, _, _)
SplitParts(s, ms, p) ==
    IF ms = <<>> THEN << SubTokens(s, p, Len(s)) >>
    ELSE << SubTokens(s, p, Head(ms)[1] - 1), SubTokens(s, Head(ms)[1], Head(ms)[2]) >>
         \o SplitParts(s, Tail(ms), Head(ms)[2] + 1)

SplitOnMarkers(s) == SplitParts(s, MarkerMatches(s, 1), 1)

ContainsMarker(s) == MarkerMatches(s, 1) # <<>>

\* String.prototype.trim()
RECURSIVE TrimLeft(_)
TrimLeft(s) == IF s # <<>> /\ Head(s) = "s" THEN TrimLeft(Tail(s)) ELSE s

RECURSIVE TrimRight(_)
TrimRight(s) ==
    IF s = <<>> THEN s
    ELSE IF s[Len(s)] = "s" THEN TrimRight(SubSeq(s, 1, Len(s) - 1))
    ELSE IF s[Len(s)] = "O" THEN SubSeq(s, 1, Len(s) - 1) \o <<"o">>
    ELSE s

Trim(s) == TrimRight(TrimLeft(s))

(* ------------------------- utils/timing.ts ----------------------------- *)

Styles == {"beginner", "technical", "overview"}

\* text.trim().split(/\s+/).length : the empty string splits into [""]
WordCount(s) ==
    LET e == IsSpaceSeq(s)
        starts == {i \in 1..Len(e) : ~e[i] /\ (i = 1 \/ e[i - 1])}
    IN  IF starts = {} THEN 1 ELSE Cardinality(starts)

\* 60 / wpm seconds per word, in units: 130, 170 and 150 words per minute
\* the rate table without the overview rate
UnitsPerWordNoOverview(style) ==
    IF style = "beginner" THEN 102000 ELSE 88400

UnitsPerWord(style) ==
    IF style = "beginner" THEN 102000
    ELSE IF style = "overview" THEN 78000 ELSE 88400

Max(a, b) == IF a >= b THEN a ELSE b

Min(a, b) == IF a <= b THEN a ELSE b

calculateSpeakingDuration(text, style) ==
    Max(2 * SecUnits, WordCount(text) * UnitsPerWord(style))

RECURSIVE SumSilence(_, _)
SumSilence(s, ms) ==
    IF ms = <<>> THEN 0
    ELSE (MarkerMs(s, Head(ms)) * SecUnits) \div 1000 + SumSilence(s, Tail(ms))

parseSilenceMarkers(text) ==
    [cleanText |-> ReplaceMarkers(text),
     totalSilence |-> SumSilence(text, MarkerMatches(text, 1))]

calculateTotalDuration(text, style) ==
    calculateSpeakingDuration(parseSilenceMarkers(text).cleanText, style)
        + parseSilenceMarkers(text).totalSilence

\* the loop with a silence segment that does not advance currentTime
RECURSIVE SegmentsOfSilenceNotAdvancing(_, _, _)
SegmentsOfSilenceNotAdvancing(parts, style, t) ==
    IF parts = <<>> THEN <<>>
    ELSE LET part == Head(parts)
         IN  IF MarkerEndAt(part, 1) # 0
             THEN LET d == (MarkerMs(part, <<1, Len(part)>>) * SecUnits) \div 1000
                  IN  <<[text |-> <<>>, startTime |-> t, duration |-> d]>>
                      \o SegmentsOfSilenceNotAdvancing(Tail(parts), style, t)
             ELSE IF Trim(part) # <<>>
             THEN LET d == calculateSpeakingDuration(part, style)
                  IN  <<[text |-> Trim(part), startTime |-> t, duration |-> d]>>
                      \o SegmentsOfSilenceNotAdvancing(Tail(parts), style, t + d)
             ELSE SegmentsOfSilenceNotAdvancing(Tail(parts), style, t)

\* the loop of createTimingSegments over the parts, from time t on
RECURSIVE SegmentsOf(_, _, _)
SegmentsOf(parts, style, t) ==
    IF parts = <<>> THEN <<>>
    ELSE LET part == Head(parts)
         IN  IF MarkerEndAt(part, 1) # 0
             THEN LET d == (MarkerMs(part, <<1, Len(part)>>) * SecUnits) \div 1000
                  IN  <<[text |-> <<>>, startTime |-> t, duration |-> d]>>
                      \o SegmentsOf(Tail(parts), style, t + d)
             ELSE IF Trim(part) # <<>>
             THEN LET d == calculateSpeakingDuration(part, style)
                  IN  <<[text |-> Trim(part), startTime |-> t, duration |-> d]>>
                      \o SegmentsOf(Tail(parts), style, t + d)
             ELSE SegmentsOf(Tail(parts), style, t)

createTimingSegments(narration, style) ==
    SegmentsOf(SplitOnMarkers(narration), style, 0)

RECURSIVE SumDurations(_, _, _)
SumDurations(segs, i, j) ==
    IF i > j THEN 0 ELSE segs[i].duration + SumDurations(segs, i + 1, j)

\* Math.floor in the place of Math.ceil
FloorDiv(a, b) == a \div b

CeilDiv(a, b) == (a + b - 1) \div b

\* the function without its empty-list case
calculateFrameDurationsNoDefault(frameCount, audioSegments) ==
    IF frameCount = 0 THEN <<>>
    ELSE IF frameCount > Len(audioSegments)
    THEN [i \in 1..frameCount |->
            <<SumDurations(audioSegments, 1, Len(audioSegments)), frameCount>>]
    ELSE LET segmentsPerFrame == CeilDiv(Len(audioSegments), frameCount)
         IN  [i \in 1..frameCount |->
                <<SumDurations(audioSegments, (i - 1) * segmentsPerFrame + 1,
                               Min(i * segmentsPerFrame, Len(audioSegments))), 1>>]

\* the even distribution dividing by the number of segments
calculateFrameDurationsPerSegment(frameCount, audioSegments) ==
    IF frameCount = 0 THEN <<>>
    ELSE IF Len(audioSegments) = 0
    THEN [i \in 1..frameCount |-> <<3 * SecUnits, 1>>]
    ELSE IF frameCount > Len(audioSegments)
    THEN [i \in 1..frameCount |->
            <<SumDurations(audioSegments, 1, Len(audioSegments)), Len(audioSegments)>>]
    ELSE LET segmentsPerFrame == CeilDiv(Len(audioSegments), frameCount)
         IN  [i \in 1..frameCount |->
                <<SumDurations(audioSegments, (i - 1) * segmentsPerFrame + 1,
                               Min(i * segmentsPerFrame, Len(audioSegments))), 1>>]

\* the grouping loop leaving out the frames beyond the last segment
calculateFrameDurationsSkipEmpty(frameCount, audioSegments) ==
    IF frameCount = 0 THEN <<>>
    ELSE IF Len(audioSegments) = 0
    THEN [i \in 1..frameCount |-> <<3 * SecUnits, 1>>]
    ELSE IF frameCount > Len(audioSegments)
    THEN [i \in 1..frameCount |->
            <<SumDurations(audioSegments, 1, Len(audioSegments)), frameCount>>]
    ELSE LET segmentsPerFrame == CeilDiv(Len(audioSegments), frameCount)
         IN  [i \in 1..CeilDiv(Len(audioSegments), segmentsPerFrame) |->
                <<SumDurations(audioSegments, (i - 1) * segmentsPerFrame + 1,
                               Min(i * segmentsPerFrame, Len(audioSegments))), 1>>]

\* a slice that starts one segment late
FrameSliceSkipsFirst(i, segmentsPerFrame, n) ==
    <<(i - 1) * segmentsPerFrame + 1, Min(i * segmentsPerFrame, n)>>

\* <<startIdx, endIdx>> of the slice of frame i (from 1) in the grouping loop
FrameSlice(i, segmentsPerFrame, n) ==
    <<(i - 1) * segmentsPerFrame, Min(i * segmentsPerFrame, n)>>

\* the segments (from 1) that audioSegments.slice(startIdx, endIdx) holds
SliceIndices(slice, n) == {j \in 1..n : slice[1] < j /\ j <= slice[2]}

\* the slices the grouping loop takes, one per frame (none in the other cases)
FrameGroups(frameCount, n) ==
    IF frameCount = 0 \/ n = 0 \/ frameCount > n THEN <<>>
    ELSE [i \in 1..frameCount |->
            SliceIndices(FrameSlice(i, CeilDiv(n, frameCount), n), n)]

\* one <<num, den>> pair per frame
calculateFrameDurations(frameCount, audioSegments) ==
    IF frameCount = 0 THEN <<>>
    ELSE IF Len(audioSegments) = 0
    THEN [i \in 1..frameCount |-> <<3 * SecUnits, 1>>]
    ELSE IF frameCount > Len(audioSegments)
    THEN [i \in 1..frameCount |->
            <<SumDurations(audioSegments, 1, Len(audioSegments)), frameCount>>]
    ELSE LET segmentsPerFrame == CeilDiv(Len(audioSegments), frameCount)
         IN  [i \in 1..frameCount |->
                LET slice == FrameSlice(i, segmentsPerFrame, Len(audioSegments))
                IN  <<SumDurations(audioSegments, slice[1] + 1, slice[2]), 1>>]

(* ----------------------------- file system ----------------------------- *)

\* A path: the directory of the output file, the Date.now() stamp of the
\* temp directory it lies in (-1 outside a temp directory), what it is, and
\* its index among the files of its kind.
Path(dir, ms, kind, idx) == [dir |-> dir, ms |-> ms, kind |-> kind, idx |-> idx]

NoPath == Path("-", -1, "none", 0)

\* path.join(path.dirname(outputPath), '.temp-video-' + Date.now())
TempDirOf(outDir, t) == Path(outDir, t, "tempDir", 0)

\* path.join(dir, name) for the fixed names the code uses
Sub(p, kind, idx) == Path(p.dir, p.ms, kind, idx)

Parent(p) ==
    CASE p.kind \in {"framesHtmlDir", "framesPngDir", "txt", "audio"} /\ p.ms >= 0
              -> Sub(p, "tempDir", 0)
      [] p.kind = "html" -> Sub(p, "framesHtmlDir", 0)
      [] p.kind \in {"png", "concat"} -> Sub(p, "framesPngDir", 0)
      [] OTHER -> NoPath

IsWithin(q, p) ==
    \/ q = p
    \/ Parent(q) = p
    \/ Parent(Parent(q)) = p

\* the file system: a set of entries [path, by, content]; `by` is the run
\* that created the entry, content is "dir", "data", "empty" or "partial"
FsHas(f, p) == \E e \in f : e.path = p

FsEntry(f, p) == CHOOSE e \in f : e.path = p

FsWrite(f, p, r, c) ==
    {e \in f : e.path # p} \cup {[path |-> p, by |-> r, content |-> c]}

\* fs.mkdir(p, { recursive: true })
MkdirP(f, p, r) ==
    f \cup {[path |-> q, by |-> r, content |-> "dir"] :
              q \in {q \in {p, Parent(p), Parent(Parent(p))} :
                       q # NoPath /\ ~FsHas(f, q)}}

\* fs.rm(p, { recursive: true, force: true })
FsRemoveTree(f, p) == {e \in f : ~IsWithin(e.path, p)}

FsUnlink(f, p) == {e \in f : e.path # p}

\* fs.writeFile succeeds when the directory of the file exists
CanWrite(f, p) == Parent(p) = NoPath \/ FsHas(f, Parent(p))

(* -------------------------- stages/video.ts ---------------------------- *)

\* cleanupTempFiles(tempFiles) from entry i on; `fail` holds the indices
\* whose stat/rm/unlink rejects.  Every rejection (also the ENOENT of a path
\* that is gone) is caught inside the loop.
RECURSIVE CleanupLoop(_, _, _, _)
CleanupLoop(f, files, fail, i) ==
    IF i > Len(files) THEN f
    ELSE IF i \in fail \/ ~FsHas(f, files[i])
    THEN CleanupLoop(f, files, fail, i + 1)
    ELSE IF FsEntry(f, files[i]).content = "dir"
    THEN CleanupLoop(FsRemoveTree(f, files[i]), files, fail, i + 1)
    ELSE CleanupLoop(FsUnlink(f, files[i]), files, fail, i + 1)

\* the paths the loop of cleanupTempFiles reaches: all of them, in order
CleanupAttempts(files, fail) == files

\* whether a rejection inside cleanupTempFiles reaches its caller
CleanupThrows(fail) == FALSE

\* a loop without the try/catch around each removal
cleanupTempFilesNoCatch(f, files, fail) ==
    IF fail = {} THEN CleanupLoop(f, files, fail, 1)
    ELSE CleanupLoop(f, SubTokens(files, 1, (CHOOSE i \in fail : \A j \in fail : i <= j) - 1), {}, 1)

cleanupTempFiles(f, files, fail) == CleanupLoop(f, files, fail, 1)

\* the failure sets a cleanup may meet
FailSets(files, o) ==
    IF o THEN {{}}
    ELSE {F \in SUBSET (1..Len(files)) : Cardinality(F) <= MaxRmFail}

\* the catch block of generateVideo: cleanupTempFiles(tempFiles); throw error
CleanupOnErrorSkipped(f, files, fail) == f

CleanupOnError(f, files, fail) == cleanupTempFiles(f, files, fail)

\* the no-audio branch of step 3: 3 s for the first and last frame, 5 s else
DefaultFrameDurations(n) ==
    [i \in 1..n |-> IF i = 1 \/ i = n THEN <<3 * SecUnits, 1>> ELSE <<5 * SecUnits, 1>>]

\* step 3 falling back to calculateFrameDurations with no segments
TimingStageUniformFallback(hasAudio, audioDuration, n, narrative, style) ==
    IF hasAudio /\ audioDuration > 0
    THEN calculateFrameDurations(n, createTimingSegments(narrative, style))
    ELSE calculateFrameDurations(n, <<>>)

\* step 3 asking for one duration per segment
TimingStagePerSegment(hasAudio, audioDuration, n, narrative, style) ==
    IF hasAudio /\ audioDuration > 0
    THEN calculateFrameDurations(Len(createTimingSegments(narrative, style)),
                                 createTimingSegments(narrative, style))
    ELSE DefaultFrameDurations(n)

\* step 3 of generateVideo
TimingStage(hasAudio, audioDuration, n, narrative, style) ==
    IF hasAudio /\ audioDuration > 0
    THEN calculateFrameDurations(n, createTimingSegments(narrative, style))
    ELSE DefaultFrameDurations(n)

\* frameDurations.reduce((sum, d) => sum + d, 0): the entries of one list
\* share their denominator
RECURSIVE SumNums(_)
SumNums(ds) == IF ds = <<>> THEN 0 ELSE Head(ds)[1] + SumNums(Tail(ds))

TotalDuration(ds) == IF ds = <<>> THEN <<0, 1>> ELSE <<SumNums(ds), ds[1][2]>>

\* step 5 going on whatever checkFFmpeg says
FfmpegCheckIgnored(available) == TRUE

\* step 5: whether generateVideo goes on to compileVideo after checkFFmpeg
FfmpegCheckPasses(available) == available

\* the audio file handed to the encoder whether or not it is valid
AudioArgumentAlways(hasAudio, audioPath) == audioPath

\* the audioPath argument of compileVideo: hasAudio ? audioPath : null
AudioArgument(hasAudio, audioPath) == IF hasAudio THEN audioPath ELSE NoPath

\* the order of the five steps inside the try block of generateVideo
StepAfterSwapped(step) ==
    CASE step = "frames" -> "audio"
      [] step = "audio"  -> "render"
      [] step = "render" -> "timing"
      [] step = "timing" -> "compile"
      [] OTHER           -> "return"

StepAfter(step) ==
    CASE step = "frames" -> "audio"
      [] step = "audio"  -> "timing"
      [] step = "timing" -> "render"
      [] step = "render" -> "compile"
      [] OTHER           -> "return"

(* ------------------------ generators/audio.ts -------------------------- *)

\* AudioGenerator.validateAudio: the file exists and stats.size > 0
validateAudioAnySize(f, audioPath) == FsHas(f, audioPath)

validateAudio(f, audioPath) ==
    FsHas(f, audioPath) /\ FsEntry(f, audioPath).content # "empty"

\* the try/catch of step 2: a rejection of generateAudio is absorbed
AudioErrorIsFatalAlways(raised) == raised

AudioErrorIsFatal(raised) == FALSE

(* ----------------------- generators/compiler.ts ------------------------ *)

\* the two guards at the head of VideoCompiler.compileVideo: the error they
\* raise, or "none"
CompilePrecheckNoLengthTest(pngCount, durCount) ==
    IF pngCount = 0 THEN "no_frames" ELSE "none"

CompilePrecheck(pngCount, durCount) ==
    IF pngCount = 0 THEN "no_frames"
    ELSE IF durCount # pngCount THEN "count_mismatch"
    ELSE "none"

(* ------------------------------ index.ts ------------------------------- *)

NoResponse ==
    [status |-> "none", stage |-> "-", error |-> "none", videoPath |-> NoPath,
     duration |-> <<0, 1>>, frameCount |-> 0, hasAudio |-> FALSE,
     detail |-> "-",           \* what the error message says went wrong
     excerpt |-> FALSE]        \* whether the message quotes the agent's reply

\* the catch block of the tool handlers: { status, stage, error }
ErrorResponseFineStage(me, error) ==
    [NoResponse EXCEPT !.status = "error", !.stage = me.step, !.error = error,
                       !.detail = me.message, !.excerpt = me.excerpt]

ErrorResponse(me, error) ==
    [NoResponse EXCEPT !.status = "error", !.stage = me.stage, !.error = error,
                       !.detail = me.message, !.excerpt = me.excerpt]

\* the success response, built from the VideoGenerationResult
SuccessResponse(res) ==
    [NoResponse EXCEPT !.status = "success", !.videoPath = res.videoPath,
                       !.duration = res.duration, !.frameCount = res.frameCount,
                       !.hasAudio = res.hasAudio]

\* the target of a generate_walkthrough request
\* ("branch" is no target type of the server)
TargetTypes == {"commit", "staged", "branch"}

Targets ==
    {[type |-> t, hasHash |-> h] : t \in TargetTypes, h \in BOOLEAN}
        \ {[type |-> t, hasHash |-> TRUE] : t \in TargetTypes \ {"commit"}}

\* the switch on target.type without the test of target.commitHash
TargetCheckNoHashTest(target) ==
    IF target.type \in {"commit", "staged", "unstaged", "codebase"} THEN "none"
    ELSE "unknown_target"

\* the switch on target.type at the head of generateWalkthrough: the error
\* it raises before any extractor runs, or "none"
TargetCheck(target) ==
    IF target.type = "commit"
    THEN IF ~target.hasHash THEN "commitHash_required" ELSE "none"
    ELSE IF target.type \in {"staged", "unstaged", "codebase"} THEN "none"
    ELSE "unknown_target"

(* ------------------ stages/analysis.ts, stages/script.ts --------------- *)

\* the fields the parsers require of the agent's JSON
AnalysisFields == {"summary", "files", "totalStats"}

ScriptFields == {"intro", "sections", "outro", "fullNarrative"}

\* the text of an agent's reply: whether it is JSON, and which of the
\* required fields it has in the required shape
AgentReplies(required) ==
    {[json |-> FALSE, fields |-> {}]}
        \cup {[json |-> TRUE, fields |-> F] : F \in SUBSET required}

\* what is wrong with a reply: nothing, no JSON, or a required field missing
ReplyDefect(reply, required) ==
    IF ~reply.json THEN "not_json"
    ELSE IF reply.fields # required THEN "missing_field"
    ELSE "none"

\* parseAnalysisResponse: the error it raises ("none": it returns) and whether
\* the message quotes responseText.slice(0, 200)
parseAnalysisResponse(reply) ==
    IF ~reply.json THEN [error |-> "not_json", excerpt |-> TRUE]
    ELSE IF "summary" \notin reply.fields
    THEN [error |-> "missing_summary", excerpt |-> FALSE]
    ELSE IF "files" \notin reply.fields
    THEN [error |-> "files_not_array", excerpt |-> FALSE]
    ELSE IF "totalStats" \notin reply.fields
    THEN [error |-> "missing_totalStats", excerpt |-> FALSE]
    ELSE [error |-> "none", excerpt |-> FALSE]

\* parseScriptResponse, likewise
parseScriptResponse(reply) ==
    IF ~reply.json THEN [error |-> "not_json", excerpt |-> TRUE]
    ELSE IF "intro" \notin reply.fields
    THEN [error |-> "missing_intro", excerpt |-> FALSE]
    ELSE IF "sections" \notin reply.fields
    THEN [error |-> "sections_not_array", excerpt |-> FALSE]
    ELSE IF "outro" \notin reply.fields
    THEN [error |-> "missing_outro", excerpt |-> FALSE]
    ELSE IF "fullNarrative" \notin reply.fields
    THEN [error |-> "missing_fullNarrative", excerpt |-> FALSE]
    ELSE [error |-> "none", excerpt |-> FALSE]

(* ------------------------------- state --------------------------------- *)

VARIABLES
    runs,       \* one record per request: its inputs, locals and position
    fs,         \* the file system
    now,        \* Date.now()
    overlap,    \* whether the server is given two overlapping requests
    call        \* a direct call of one function of utils/timing.ts

vars == <<runs, fs, now, overlap, call>>

Runs == {"r1", "r2"}

OutDirs == {"a", "b"}

\* script.fullNarrative of a script that has no such field
Undefined == <<"undefined">>

Narratives ==
    { <<"w", "s", "w">>,
      <<"w", "O", "5", "C", "s", "w", "O", "1", "5", "C">>,
      <<"O", "O", "1", "C", "5", "C">> }

\* The workload.  Either one request with any input, whose collaborators may
\* fail at will; or two overlapping generate_video_from_script requests with
\* the smallest input (no file frames, one narrative with two markers, the
\* default style), whose collaborators fail only when the other request has
\* removed a file they need.
RunsIn(o) == IF o THEN Runs ELSE {"r1"}

FileCountsIn(o) == IF o THEN {0} ELSE 0..MaxFiles

NarrativesIn(o) ==
    IF o THEN { <<"w", "O", "5", "C", "s", "w", "O", "1", "5", "C">> } ELSE Narratives

StylesIn(o) == IF o THEN {"technical"} ELSE Styles

\* the outcomes of a call that may be made to fail: TRUE is success
Outcomes(o) == IF o THEN {TRUE} ELSE BOOLEAN

EngineOutcomes(o) == IF o THEN {"ok"} ELSE {"ok", "empty", "nofile", "fail"}

EncoderOutcomes(o) == IF o THEN {"ok"} ELSE {"ok", "fail", "partial"}

\* the frame at which a loop over n frames is made to stop (n + 1: never)
StopsIn(o, n) == IF o THEN {n + 1} ELSE 1..(n + 1)

NoResult ==
    [videoPath |-> NoPath, duration |-> <<0, 1>>, frameCount |-> 0, hasAudio |-> FALSE]

IdleRun ==
    [pc |-> "idle", tool |-> "none", outDir |-> "-", nFiles |-> 0,
     narrative |-> <<>>, style |-> "technical",
     stage |-> "-",            \* WalkthroughState.stage
     step |-> "-",             \* the step of generateVideo that is running
     steps |-> <<>>,           \* the steps started so far
     calls |-> <<>>,           \* the collaborators invoked so far
     tempDir |-> NoPath, tempFiles |-> <<>>,
     htmlFrames |-> <<>>, pngFrames |-> <<>>,
     ttsRaised |-> FALSE, ttsText |-> <<>>,
     audioOutcome |-> "none", hasAudio |-> FALSE, audioDuration |-> 0,
     frameDurations |-> <<>>,
     concatDurations |-> <<>>, \* the durations written to the concat file
     audioArg |-> NoPath,      \* the audioPath argument of compileVideo
     encoderAudio |-> NoPath,  \* the audio input of the ffmpeg command
     browser |-> "closed",
     ffmpeg |-> "unknown",     \* what checkFFmpeg answered
     target |-> [type |-> "-", hasHash |-> FALSE],
     badReply |-> "none",      \* the defect of the agent reply that was received
     message |-> "-", excerpt |-> FALSE,
     error |-> "none", result |-> NoResult, response |-> NoResponse,
     cleaned |-> FALSE, attempted |-> <<>>, rmFail |-> {}]

OutputPath(me) == Path(me.outDir, -1, "output", 0)

FrameCount(me) == me.nFiles + 2

FramePaths(base, kind, n) == [i \in 1..n |-> Sub(base, kind, i)]

AudioPath(me) == Sub(me.tempDir, "audio", 0)

TextPath(me) == Sub(me.tempDir, "txt", 0)

ConcatPath(me) == Sub(me.pngFrames[1], "concat", 0)

IsVideoTool(me) == me.tool \in {"generate_walkthrough", "generate_video_from_script"}

Ended(me) == me.pc \in {"done", "failed"}

Put(r, rec) == runs' = [runs EXCEPT ![r] = rec]

\* a result reporting the duration of the audio when there is audio
VideoResultAudioDuration(me) ==
    [videoPath |-> OutputPath(me),
     duration |-> IF me.hasAudio THEN <<me.audioDuration, 1>>
                  ELSE TotalDuration(me.frameDurations),
     frameCount |-> Len(me.htmlFrames),
     hasAudio |-> me.hasAudio]

\* the VideoGenerationResult generateVideo returns
VideoResult(me) ==
    [videoPath |-> OutputPath(me),
     duration |-> TotalDuration(me.frameDurations),
     frameCount |-> Len(me.htmlFrames),
     hasAudio |-> me.hasAudio]

\* no function of utils/timing.ts is being called directly
NoCall ==
    [kind |-> "none", fn |-> "none", text |-> <<>>, style |-> "technical",
     frameCount |-> 0, audioSegments |-> <<>>, result |-> <<>>,
     groups |-> <<>>]          \* the slices taken by calculateFrameDurations

Init ==
    /\ runs = [r \in Runs |-> IdleRun]
    /\ fs = {}
    /\ now = 0
    /\ overlap \in BOOLEAN
    /\ call = NoCall

(* ------------------------------ actions -------------------------------- *)

\* the clock advances
Tick ==
    /\ now < MaxClock
    /\ now' = now + 1
    /\ UNCHANGED <<runs, fs, overlap, call>>

\* generateWalkthrough up to its first await: the target check
StartWalkthrough(r) ==
    /\ runs[r].pc = "idle"
    /\ r \in RunsIn(overlap) /\ ~overlap
    /\ \E d \in OutDirs, n \in 0..MaxFiles, t \in Narratives, st \in Styles,
          tg \in Targets :
         LET me == [runs[r] EXCEPT !.tool = "generate_walkthrough", !.outDir = d,
                                   !.nFiles = n, !.narrative = t, !.style = st,
                                   !.stage = "analysis", !.target = tg]
             check == TargetCheck(tg)
         IN  IF check = "none"
             THEN Put(r, [me EXCEPT !.pc = "extract"])
             ELSE LET failed == [me EXCEPT !.pc = "failed", !.error = check,
                                           !.message = check]
                  IN  Put(r, [failed EXCEPT !.response = ErrorResponse(failed, check)])
    /\ UNCHANGED <<fs, now, overlap, call>>

\* the extractor of the target
Extract(r) ==
    /\ runs[r].pc = "extract"
    /\ LET me == [runs[r] EXCEPT !.calls = @ \o <<"extractor">>]
       IN  \E ok \in BOOLEAN :
             IF ok THEN Put(r, [me EXCEPT !.pc = "analysis"])
             ELSE LET failed == [me EXCEPT !.pc = "failed", !.error = "extract",
                                           !.message = "extract"]
                  IN  Put(r, [failed EXCEPT !.response = ErrorResponse(failed, "extract")])
    /\ UNCHANGED <<fs, now, overlap, call>>

\* a request to the agent that ends in the error p of the parser (or in the
\* rejection of the sampling call): the handler's catch block
AgentFailure(r, me, tag, defect, p) ==
    LET failed == [me EXCEPT !.pc = "failed", !.error = tag, !.badReply = defect,
                             !.message = p.error, !.excerpt = p.excerpt]
    IN  Put(r, [failed EXCEPT !.response = ErrorResponse(failed, tag)])

\* request*Analysis: the agent is asked, its answer is parsed
Analysis(r) ==
    /\ runs[r].pc = "analysis"
    /\ LET me == [runs[r] EXCEPT !.calls = @ \o <<"agent">>, !.stage = "analysis"]
       IN  \/ AgentFailure(r, me, "analysis", "none",
                           [error |-> "no_reply", excerpt |-> FALSE])
           \/ \E reply \in AgentReplies(AnalysisFields) :
                LET p == parseAnalysisResponse(reply)
                IN  IF p.error = "none"
                    THEN Put(r, [me EXCEPT !.pc = "script", !.stage = "script"])
                    ELSE AgentFailure(r, me, "analysis",
                                      ReplyDefect(reply, AnalysisFields), p)
    /\ UNCHANGED <<fs, now, overlap, call>>

\* requestScriptGeneration, then the call of generateVideo up to its mkdir
Script(r) ==
    /\ runs[r].pc = "script"
    /\ LET me == [runs[r] EXCEPT !.calls = @ \o <<"agent">>]
       IN  \/ AgentFailure(r, me, "script", "none",
                           [error |-> "no_reply", excerpt |-> FALSE])
           \/ \E reply \in AgentReplies(ScriptFields) :
                LET p == parseScriptResponse(reply)
                IN  IF p.error = "none"
                    THEN Put(r, [me EXCEPT !.pc = "mkdir", !.stage = "video",
                                           !.tempDir = TempDirOf(me.outDir, now)])
                    ELSE AgentFailure(r, me, "script",
                                      ReplyDefect(reply, ScriptFields), p)
    /\ UNCHANGED <<fs, now, overlap, call>>

\* generateVideoFromScript: the call of generateVideo up to its mkdir
StartFromScript(r) ==
    /\ runs[r].pc = "idle"
    /\ r \in RunsIn(overlap)
    /\ \E d \in OutDirs, n \in FileCountsIn(overlap), st \in StylesIn(overlap),
          t \in NarrativesIn(overlap) \cup (IF overlap THEN {} ELSE {Undefined}) :
         Put(r, [runs[r] EXCEPT !.tool = "generate_video_from_script", !.outDir = d,
                                !.nFiles = n, !.narrative = t, !.style = st,
                                !.stage = "video", !.pc = "mkdir",
                                !.tempDir = TempDirOf(d, now)])
    /\ UNCHANGED <<fs, now, overlap, call>>

\* fs.mkdir(tempDir), outside the try block
Mkdir(r) ==
    /\ runs[r].pc = "mkdir"
    /\ LET me == runs[r]
       IN  \E ok \in Outcomes(overlap) :
             IF ok
             THEN /\ fs' = MkdirP(fs, me.tempDir, r)
                  /\ Put(r, [me EXCEPT !.pc = "frames", !.tempFiles = <<me.tempDir>>])
             ELSE /\ fs' = fs
                  /\ Put(r, [me EXCEPT !.pc = "failed", !.error = "mkdir",
                                       !.response = ErrorResponse(me, "mkdir")])
    /\ UNCHANGED <<now, overlap, call>>

\* step 1: FrameGenerator.generateFrames writes title, file and outro frames;
\* it may fail at frame `stop`
Frames(r) ==
    /\ runs[r].pc = "frames"
    /\ LET me == [runs[r] EXCEPT !.step = "frames", !.steps = @ \o <<"frames">>,
                                 !.calls = @ \o <<"frameGenerator">>]
           n == FrameCount(me)
           dir == Sub(me.tempDir, "framesHtmlDir", 0)
           all == FramePaths(me.tempDir, "html", n)
           Written(k) == {[path |-> all[i], by |-> r, content |-> "data"] : i \in 1..k}
           Base(k) == {e \in MkdirP(fs, dir, r) : e.path \notin {all[i] : i \in 1..k}}
       IN  \E stop \in StopsIn(overlap, n) :
             /\ fs' = Base(stop - 1) \cup Written(stop - 1)
             /\ IF stop = n + 1
                THEN Put(r, [me EXCEPT !.pc = StepAfter("frames"), !.htmlFrames = all,
                                       !.tempFiles = @ \o all])
                ELSE Put(r, [me EXCEPT !.pc = "catch", !.error = "frames"])
    /\ UNCHANGED <<now, overlap, call>>

\* step 2, first half: AudioGenerator.generateAudio, which hands the text to
\* TextToSpeechConverter.generateAudio (strip the markers, write the text
\* file, run the engine, unlink the text file, stat the audio file)
Audio(r) ==
    /\ runs[r].pc = "audio"
    /\ LET me == [runs[r] EXCEPT !.step = "audio", !.steps = @ \o <<"audio">>]
           Raised(m) ==
               IF AudioErrorIsFatal(TRUE)
               THEN Put(r, [m EXCEPT !.pc = "catch", !.error = "audio", !.ttsRaised = TRUE])
               ELSE Put(r, [m EXCEPT !.pc = StepAfter("audio"), !.ttsRaised = TRUE,
                                     !.hasAudio = FALSE, !.audioOutcome = "raised"])
           Returned(m) ==
               Put(r, [m EXCEPT !.pc = "validate",
                                !.audioDuration = calculateTotalDuration(m.narrative, m.style)])
       IN  IF me.narrative = Undefined \/ ~CanWrite(fs, TextPath(me))
           THEN /\ fs' = fs
                /\ Raised(me)
           ELSE LET called == [me EXCEPT !.calls = @ \o <<"tts">>,
                                         !.ttsText = ReplaceMarkers(me.narrative)]
                    withText == FsWrite(fs, TextPath(me), r, "data")
                    done == FsUnlink(withText, TextPath(me))
                IN  \E engine \in EngineOutcomes(overlap) :
                      CASE engine = "fail" ->
                             /\ fs' = withText
                             /\ Raised(called)
                        [] engine = "nofile" ->
                             /\ fs' = done
                             /\ IF FsHas(done, AudioPath(me))
                                THEN Returned(called) ELSE Raised(called)
                        [] engine = "empty" ->
                             /\ fs' = FsWrite(done, AudioPath(me), r, "empty")
                             /\ Returned(called)
                        [] OTHER ->
                             /\ fs' = FsWrite(done, AudioPath(me), r, "data")
                             /\ Returned(called)
    /\ UNCHANGED <<now, overlap, call>>

\* step 2, second half: validateAudio and the bookkeeping after it
AudioValidate(r) ==
    /\ runs[r].pc = "validate"
    /\ LET me == runs[r]
           valid == validateAudio(fs, AudioPath(me))
           outcome == IF ~FsHas(fs, AudioPath(me)) THEN "missing"
                      ELSE IF FsEntry(fs, AudioPath(me)).content = "empty" THEN "empty"
                      ELSE "ok"
       IN  Put(r, [me EXCEPT !.pc = StepAfter("audio"), !.hasAudio = valid,
                             !.audioOutcome = outcome,
                             !.tempFiles = IF valid THEN @ \o <<AudioPath(me)>> ELSE @])
    /\ UNCHANGED <<fs, now, overlap, call>>

\* step 3: the frame durations
Timing(r) ==
    /\ runs[r].pc = "timing"
    /\ LET me == [runs[r] EXCEPT !.step = "timing", !.steps = @ \o <<"timing">>]
       IN  Put(r, [me EXCEPT !.pc = StepAfter("timing"),
                             !.frameDurations =
                                 TimingStage(me.hasAudio, me.audioDuration,
                                             Len(me.htmlFrames), me.narrative, me.style)])
    /\ UNCHANGED <<fs, now, overlap, call>>

\* step 4: compiler.initialize() and convertFramesToPng, which reads each
\* HTML frame and writes its PNG; it fails at frame `failAt` (n + 1: never),
\* or at the first frame whose HTML file is gone
Render(r) ==
    /\ runs[r].pc = "render"
    /\ LET me == [runs[r] EXCEPT !.step = "render", !.steps = @ \o <<"render">>]
           n == Len(me.htmlFrames)
           dir == Sub(me.tempDir, "framesPngDir", 0)
           all == FramePaths(me.tempDir, "png", n)
           gone == {i \in 1..n : ~FsHas(fs, me.htmlFrames[i])}
           Written(k) == {[path |-> all[i], by |-> r, content |-> "data"] : i \in 1..k}
           Base(k) == {e \in MkdirP(fs, dir, r) : e.path \notin {all[i] : i \in 1..k}}
       IN  \/ /\ ~overlap
              /\ fs' = fs
              /\ Put(r, [me EXCEPT !.pc = "catch", !.error = "initialize"])
           \/ \E failAt \in StopsIn(overlap, n) :
                LET stop == IF \E i \in gone : i < failAt
                            THEN CHOOSE i \in gone : \A j \in gone : i <= j
                            ELSE failAt
                    opened == [me EXCEPT !.browser = "open", !.calls = @ \o <<"renderer">>]
                IN  /\ fs' = Base(stop - 1) \cup Written(stop - 1)
                    /\ IF stop = n + 1
                       THEN Put(r, [opened EXCEPT !.pc = StepAfter("render"),
                                                  !.pngFrames = all,
                                                  !.tempFiles = @ \o all])
                       ELSE Put(r, [opened EXCEPT !.pc = "catch", !.error = "render"])
    /\ UNCHANGED <<now, overlap, call>>

\* step 5, head: checkFFmpeg and getFFmpegVersion
Compile(r) ==
    /\ runs[r].pc = "compile"
    /\ LET me == [runs[r] EXCEPT !.step = "compile", !.steps = @ \o <<"compile">>,
                                 !.calls = @ \o <<"ffmpegCheck">>]
       IN  \E available \in Outcomes(overlap) :
             LET checked == [me EXCEPT !.ffmpeg = IF available THEN "available"
                                                  ELSE "missing"]
             IN  IF FfmpegCheckPasses(available)
                 THEN Put(r, [checked EXCEPT
                                !.pc = "compileVideo",
                                !.audioArg = AudioArgument(me.hasAudio, AudioPath(me))])
                 ELSE Put(r, [checked EXCEPT !.pc = "catch", !.error = "ffmpeg_missing",
                                             !.browser = "closed"])
    /\ UNCHANGED <<fs, now, overlap, call>>

\* a direct call of VideoCompiler.compileVideo with the caller's lists
StartCompileVideo(r) ==
    /\ runs[r].pc = "idle"
    /\ r \in RunsIn(overlap) /\ ~overlap
    /\ \E d \in OutDirs, pngCount \in 0..(MaxFiles + 2), durCount \in 0..(MaxFiles + 2),
          withAudio \in BOOLEAN :
         LET base == Path(d, -1, "framesPngDir", 0)
             pngs == FramePaths(base, "png", pngCount)
             audio == Path(d, -1, "audio", 0)
             given == {base} \cup {pngs[i] : i \in 1..pngCount}
                             \cup (IF withAudio THEN {audio} ELSE {})
         IN  /\ fs' = {e \in fs : e.path \notin given}
                      \cup {[path |-> q, by |-> r,
                             content |-> IF q = base THEN "dir" ELSE "data"] : q \in given}
             /\ Put(r, [runs[r] EXCEPT !.tool = "compileVideo", !.outDir = d,
                                       !.pc = "compileVideo", !.pngFrames = pngs,
                                       !.frameDurations = [i \in 1..durCount |-> <<3 * SecUnits, 1>>],
                                       !.audioArg = IF withAudio THEN audio ELSE NoPath])
    /\ UNCHANGED <<now, overlap, call>>

\* where an error raised inside compileVideo lands
Thrown(me, err) ==
    IF IsVideoTool(me)
    THEN [me EXCEPT !.pc = "catch", !.error = err]
    ELSE [me EXCEPT !.pc = "failed", !.error = err,
                    !.response = [NoResponse EXCEPT !.status = "error", !.error = err]]

\* VideoCompiler.compileVideo up to the encoder: the guards, createConcatFile
CompileVideo(r) ==
    /\ runs[r].pc = "compileVideo"
    /\ LET me == runs[r]
           check == CompilePrecheck(Len(me.pngFrames), Len(me.frameDurations))
       IN  IF check # "none"
           THEN /\ fs' = fs
                /\ Put(r, Thrown(me, check))
           ELSE \E writeOk \in Outcomes(overlap) :
                  IF writeOk /\ CanWrite(fs, ConcatPath(me))
                  THEN /\ fs' = FsWrite(fs, ConcatPath(me), r, "data")
                       /\ Put(r, [me EXCEPT !.pc = "encode",
                                            !.concatDurations = me.frameDurations])
                  ELSE /\ fs' = fs
                       /\ Put(r, Thrown(me, "concat_write"))
    /\ UNCHANGED <<now, overlap, call>>

\* execAsync(ffmpeg ...): the encoder writes the output file, possibly only
\* in part; it cannot succeed when one of its inputs is gone
Encode(r) ==
    /\ runs[r].pc = "encode"
    /\ LET me == [runs[r] EXCEPT !.calls = @ \o <<"encoder">>,
                                 !.encoderAudio = runs[r].audioArg]
           inputs == {ConcatPath(me)} \cup {me.pngFrames[i] : i \in 1..Len(me.pngFrames)}
                       \cup (IF me.audioArg = NoPath THEN {} ELSE {me.audioArg})
           present == \A q \in inputs : FsHas(fs, q)
       IN  \E outcome \in EncoderOutcomes(overlap) :
             CASE outcome = "ok" /\ present ->
                    /\ fs' = FsWrite(fs, OutputPath(me), r, "data")
                    /\ Put(r, [me EXCEPT !.pc = "encoded"])
               [] outcome = "partial" ->
                    /\ fs' = FsWrite(fs, OutputPath(me), r, "partial")
                    /\ Put(r, Thrown(me, "compile_failed"))
               [] OTHER ->
                    /\ fs' = fs
                    /\ Put(r, Thrown(me, "compile_failed"))
    /\ UNCHANGED <<now, overlap, call>>

\* compileVideo after the encoder (stat the output, unlink the concat file)
\* and, in generateVideo, compiler.close() and the result
Encoded(r) ==
    /\ runs[r].pc = "encoded"
    /\ LET me == runs[r]
       IN  \E unlinkOk \in Outcomes(overlap), closeOk \in Outcomes(overlap) :
             IF ~(FsHas(fs, OutputPath(me)) /\ FsHas(fs, ConcatPath(me)) /\ unlinkOk)
             THEN /\ fs' = fs
                  /\ Put(r, Thrown(me, "compile_failed"))
             ELSE /\ fs' = FsUnlink(fs, ConcatPath(me))
                  /\ IF ~IsVideoTool(me)
                     THEN Put(r, [me EXCEPT !.pc = "done",
                                            !.response = [NoResponse EXCEPT !.status = "success"]])
                     ELSE IF ~closeOk
                     THEN Put(r, [me EXCEPT !.pc = "catch", !.error = "close"])
                     ELSE Put(r, [me EXCEPT
                            !.pc = StepAfter("compile"), !.browser = "closed",
                            !.result = VideoResult(me)])
    /\ UNCHANGED <<now, overlap, call>>

\* the catch block of generateVideo (clean up, rethrow) and the catch block
\* of the tool handler that receives the error
Catch(r) ==
    /\ runs[r].pc = "catch"
    /\ LET me == runs[r]
       IN  \E fail \in FailSets(me.tempFiles, overlap) :
             LET err == IF CleanupThrows(fail) THEN "cleanup" ELSE me.error
             IN  /\ fs' = CleanupOnError(fs, me.tempFiles, fail)
                 /\ Put(r, [me EXCEPT !.pc = "failed", !.cleaned = TRUE, !.rmFail = fail,
                                      !.attempted = CleanupAttempts(me.tempFiles, fail),
                                      !.error = err,
                                      !.response = ErrorResponse(me, err)])
    /\ UNCHANGED <<now, overlap, call>>

\* the tool handler after generateVideo has returned: cleanupTempFiles on the
\* result's tempFiles, then the success response
HandlerSuccess(r) ==
    /\ runs[r].pc = "return"
    /\ LET me == [runs[r] EXCEPT
                    !.stage = IF @ = "video" /\ runs[r].tool = "generate_walkthrough"
                              THEN "complete" ELSE @]
       IN  \E fail \in FailSets(me.tempFiles, overlap) :
             /\ fs' = cleanupTempFiles(fs, me.tempFiles, fail)
             /\ IF CleanupThrows(fail)
                THEN Put(r, [me EXCEPT !.pc = "failed", !.cleaned = TRUE, !.rmFail = fail,
                                       !.attempted = CleanupAttempts(me.tempFiles, fail),
                                       !.error = "cleanup",
                                       !.response = ErrorResponse(me, "cleanup")])
                ELSE Put(r, [me EXCEPT !.pc = "done", !.cleaned = TRUE, !.rmFail = fail,
                                       !.attempted = CleanupAttempts(me.tempFiles, fail),
                                       !.response = SuccessResponse(me.result)])
    /\ UNCHANGED <<now, overlap, call>>

Next ==
    \/ Tick
    \/ \E r \in Runs : StartWalkthrough(r)
    \/ \E r \in Runs : Extract(r)
    \/ \E r \in Runs : Analysis(r)
    \/ \E r \in Runs : Script(r)
    \/ \E r \in Runs : StartFromScript(r)
    \/ \E r \in Runs : Mkdir(r)
    \/ \E r \in Runs : Frames(r)
    \/ \E r \in Runs : Audio(r)
    \/ \E r \in Runs : AudioValidate(r)
    \/ \E r \in Runs : Timing(r)
    \/ \E r \in Runs : Render(r)
    \/ \E r \in Runs : Compile(r)
    \/ \E r \in Runs : StartCompileVideo(r)
    \/ \E r \in Runs : CompileVideo(r)
    \/ \E r \in Runs : Encode(r)
    \/ \E r \in Runs : Encoded(r)
    \/ \E r \in Runs : Catch(r)
    \/ \E r \in Runs : HandlerSuccess(r)

Spec == Init /\ [][Next]_vars

(* ----------------------------- properties ------------------------------ *)

Has(seq, x) == \E i \in 1..Len(seq) : seq[i] = x

IsPrefix(s, t) == Len(s) <= Len(t) /\ \A i \in 1..Len(s) : s[i] = t[i]

Last(seq) == seq[Len(seq)]

\* the temp entries a run has created and that still exist
TempEntriesBy(r) == {e \in fs : e.by = r /\ e.path.ms >= 0}

\* a run of one of the two tools that has created its temp workspace
HasWorkspace(me) == IsVideoTool(me) /\ me.tempFiles # <<>>

\* C1: every run of generate_walkthrough or generate_video_from_script that
\* created a temp workspace has run cleanupTempFiles on its temp list when it
\* ends, by success or by a fatal failure; when no removal failed, nothing the
\* run created in its workspace exists any more, and the scratch directory is
\* gone at the moment the run ends.
C1_CleanupOnEveryExit ==
    /\ [](\A r \in Runs :
            (HasWorkspace(runs[r]) /\ Ended(runs[r]))
                => /\ runs[r].cleaned
                   /\ runs[r].rmFail = {} => TempEntriesBy(r) = {})
    /\ [][\A r \in Runs :
            (HasWorkspace(runs'[r]) /\ ~Ended(runs[r]) /\ Ended(runs'[r])
                /\ runs'[r].rmFail = {})
                => ~FsHas(fs', runs'[r].tempDir)]_vars

C1_Witness ==
    \E r \in Runs :
        /\ runs[r].pc = "failed" /\ runs[r].error = "compile_failed"
        /\ runs[r].cleaned /\ runs[r].rmFail = {} /\ Len(runs[r].tempFiles) > 3

\* C2: when speech synthesis raises in the audio step, generateVideo absorbs
\* the error: hasAudio is false, the next step is timing, a run that fails
\* later fails in the render or compile step with that step's error, and a
\* run that succeeds reports hasAudio = false.
C2_SynthesisFailureAbsorbed ==
    \A r \in Runs :
        LET me == runs[r]
        IN  (IsVideoTool(me) /\ me.ttsRaised)
                => /\ ~me.hasAudio
                   /\ me.error # "audio"
                   /\ me.step = "audio" => me.pc = "timing"
                   /\ Ended(me) => /\ Len(me.steps) >= 4
                                   /\ me.response.error # "audio"
                   /\ me.pc = "done" => /\ me.response.status = "success"
                                        /\ ~me.response.hasAudio

C2_Witness ==
    \E r \in Runs :
        /\ runs[r].ttsRaised /\ Has(runs[r].calls, "tts")
        /\ runs[r].pc = "done" /\ runs[r].response.status = "success"
        /\ ~runs[r].response.hasAudio

\* what a run without audio looks like from the timing step on
SilentRun(me) ==
    /\ ~me.hasAudio
    /\ Has(me.steps, "timing") => me.frameDurations = DefaultFrameDurations(Len(me.htmlFrames))
    /\ Has(me.calls, "encoder") => me.encoderAudio = NoPath
    /\ me.pc = "done" => (me.response.status = "success" /\ ~me.response.hasAudio)

\* C3: when speech synthesis returns but the audio file is missing or has
\* zero bytes, the run proceeds as it does when synthesis raises: hasAudio is
\* false, the frame durations are the no-audio list, the encoder gets no
\* audio input and the result reports hasAudio = false.
C3_EmptyAudioIsSynthesisFailure ==
    \A r \in Runs :
        (IsVideoTool(runs[r]) /\ runs[r].audioOutcome \in {"empty", "missing", "raised"})
            => SilentRun(runs[r])

C3_Witness ==
    \E r \in Runs :
        /\ runs[r].audioOutcome = "empty" /\ ~runs[r].ttsRaised
        /\ Has(runs[r].calls, "encoder") /\ runs[r].pc = "done"

StepOrder == <<"frames", "audio", "timing", "render", "compile">>

\* the step to which each collaborator of generateVideo belongs
StepOfCall(c) ==
    CASE c = "frameGenerator" -> "frames"
      [] c = "tts"            -> "audio"
      [] c = "renderer"       -> "render"
      [] OTHER                -> "compile"

\* C4: in every run of generateVideo the steps start in the order frames,
\* audio, timing, render, compile, each at most once and never going back;
\* a collaborator is invoked only during its own step; a run that is done or
\* failed never changes again.
C4_StagesInOrder ==
    /\ [](\A r \in Runs : IsVideoTool(runs[r]) => IsPrefix(runs[r].steps, StepOrder))
    /\ [][\A r \in Runs :
            /\ Ended(runs[r]) => runs'[r] = runs[r]
            /\ (IsVideoTool(runs'[r]) /\ runs'[r].steps # <<>>
                    /\ runs'[r].calls # runs[r].calls)
                 => Last(runs'[r].steps) = StepOfCall(Last(runs'[r].calls))]_vars

C4_Witness ==
    \E r \in Runs :
        /\ runs[r].steps = StepOrder /\ runs[r].pc = "done"
        /\ runs[r].calls = <<"frameGenerator", "tts", "renderer", "ffmpegCheck", "encoder">>

\* C5: whenever a generation run ends in failure, no file written by that
\* run is present at the requested output path.
C5_NoOutputAfterFailure ==
    \A r \in Runs :
        (IsVideoTool(runs[r]) /\ runs[r].pc = "failed")
            => ~\E e \in fs : e.path = OutputPath(runs[r]) /\ e.by = r

\* C6: compileVideo, given image and duration lists of different lengths,
\* raises before the concat file is written and before the encoder is run.
C6_MismatchRejectedBeforeEncoder ==
    \A r \in Runs :
        LET me == runs[r]
        IN  (Len(me.pngFrames) # Len(me.frameDurations))
                => /\ ~Has(me.calls, "encoder")
                   /\ me.pc \notin {"encode", "encoded", "done"}
                   /\ ~\E e \in fs : e.path.kind = "concat" /\ e.by = r
                   /\ (me.tool = "compileVideo" /\ me.pc # "compileVideo")
                        => /\ me.pc = "failed"
                           /\ me.error \in {"no_frames", "count_mismatch"}

C6_Witness ==
    \E r \in Runs :
        /\ runs[r].tool = "compileVideo" /\ runs[r].pc = "failed"
        /\ runs[r].error = "count_mismatch"
        /\ Len(runs[r].pngFrames) = 2 /\ Len(runs[r].frameDurations) = 3

\* the WalkthroughStage that is current when an error of each kind is raised
StageOfError(err) ==
    IF err \in {"commitHash_required", "unknown_target", "extract", "analysis"}
    THEN "analysis"
    ELSE IF err = "script" THEN "script"
    ELSE "video"

InFlight(me) == IsVideoTool(me) /\ ~Ended(me) /\ me.tempDir # NoPath

\* C8: two generation runs in flight at the same time have distinct temp
\* workspaces, also when they write to the same directory and start within
\* the same millisecond.
C8_DistinctWorkspaces ==
    \A r1, r2 \in Runs :
        (r1 # r2 /\ InFlight(runs[r1]) /\ InFlight(runs[r2]))
            => runs[r1].tempDir # runs[r2].tempDir

\* C9: when removals fail, cleanupTempFiles still attempts every path of the
\* list (each path whose removal did not fail is gone) and returns normally;
\* a run that succeeded reports success with its result, a run that failed
\* reports its own error.
C9_CleanupErrorsSwallowed ==
    \A r \in Runs :
        LET me == runs[r]
        IN  (IsVideoTool(me) /\ Ended(me) /\ me.cleaned /\ me.rmFail # {})
                => /\ me.attempted = me.tempFiles
                   /\ \A i \in 1..Len(me.tempFiles) :
                        i \notin me.rmFail
                            => ~\E e \in fs : e.path = me.tempFiles[i] /\ e.by = r
                   /\ me.error # "cleanup" /\ me.response.error = me.error
                   /\ me.pc = "done" <=> me.error = "none"
                   /\ me.pc = "done" => me.response = SuccessResponse(me.result)

C9_Witness ==
    \E r \in Runs :
        /\ runs[r].pc = "done" /\ runs[r].rmFail = {1}
        /\ Len(runs[r].tempFiles) > 3 /\ runs[r].response.status = "success"

\* C10: the text handed to the speech-synthesis engine contains no silence
\* marker [[slnc N]].
C10_NoMarkerReachesEngine ==
    \A r \in Runs : Has(runs[r].calls, "tts") => ~ContainsMarker(runs[r].ttsText)

(* ----------------- direct calls of utils/timing.ts --------------------- *)

\* a text argument has at most MaxTextLen tokens
MaxTextLen == 6

\* frameCount takes the values 0..MaxFrames
MaxFrames == 5

\* a segment list argument has at most MaxSegs segments
MaxSegs == 6

\* the tokens of a text argument
TextTokens == {"O", "C", "1", "w", "s"}

TextsIn == UNION {[1..n -> TextTokens] : n \in 0..MaxTextLen}

\* the durations of the segments of a caller's list, in seconds / SecUnits
SegDurations == {0, SecUnits, 2 * SecUnits}

\* a NarrationTiming[] with the given durations, laid end to end
RECURSIVE SegmentsWith(_, _)
SegmentsWith(durs, t) ==
    IF durs = <<>> THEN <<>>
    ELSE <<[text |-> <<"w">>, startTime |-> t, duration |-> Head(durs)]>>
         \o SegmentsWith(Tail(durs), t + Head(durs))

SegmentListsIn ==
    {SegmentsWith(d, 0) : d \in UNION {[1..n -> SegDurations] : n \in 0..MaxSegs}}

\* the arguments of the call are fixed at the start
TimingInit ==
    /\ runs = [r \in Runs |-> IdleRun]
    /\ fs = {}
    /\ now = 0
    /\ overlap = FALSE
    /\ \/ \E t \in TextsIn, st \in Styles :
            call = [NoCall EXCEPT !.kind = "text", !.text = t, !.style = st]
       \/ \E n \in 0..MaxFrames, segs \in SegmentListsIn :
            call = [NoCall EXCEPT !.kind = "frames", !.frameCount = n,
                                  !.audioSegments = segs]

Returns(fn, result) ==
    /\ call.fn = "none"
    /\ call' = [call EXCEPT !.fn = fn, !.result = result]
    /\ UNCHANGED <<runs, fs, now, overlap>>

CallParseSilenceMarkers ==
    /\ call.kind = "text"
    /\ Returns("parseSilenceMarkers", parseSilenceMarkers(call.text))

CallCalculateSpeakingDuration ==
    /\ call.kind = "text"
    /\ Returns("calculateSpeakingDuration",
               calculateSpeakingDuration(call.text, call.style))

CallCalculateTotalDuration ==
    /\ call.kind = "text"
    /\ Returns("calculateTotalDuration", calculateTotalDuration(call.text, call.style))

CallCreateTimingSegments ==
    /\ call.kind = "text"
    /\ Returns("createTimingSegments", createTimingSegments(call.text, call.style))

CallCalculateFrameDurations ==
    /\ call.kind = "frames"
    /\ call.fn = "none"
    /\ call' = [call EXCEPT
                  !.fn = "calculateFrameDurations",
                  !.result = calculateFrameDurations(call.frameCount, call.audioSegments),
                  !.groups = FrameGroups(call.frameCount, Len(call.audioSegments))]
    /\ UNCHANGED <<runs, fs, now, overlap>>

TimingNext ==
    \/ CallParseSilenceMarkers
    \/ CallCalculateSpeakingDuration
    \/ CallCalculateTotalDuration
    \/ CallCreateTimingSegments
    \/ CallCalculateFrameDurations

TimingSpec == TimingInit /\ [][TimingNext]_vars

Returned(fn) == call.fn = fn

(* ------------------- properties of utils/timing.ts --------------------- *)

\* C11: parsing the cleanText of any string again finds no marker: the
\* second parse has totalSilence = 0 and returns its input unchanged.
C11_CleanTextHasNoMarker ==
    Returned("parseSilenceMarkers")
        => LET again == parseSilenceMarkers(call.result.cleanText)
           IN  /\ again.totalSilence = 0
               /\ again.cleanText = call.result.cleanText

\* C12: calculateFrameDurations(frameCount, segments) returns exactly
\* frameCount entries, whatever the length of the segment list.
C12_OneEntryPerFrame ==
    Returned("calculateFrameDurations") => Len(call.result) = call.frameCount

\* more frames than one segment each, fewer frames than segments
C12_Witness ==
    /\ Returned("calculateFrameDurations")
    /\ call.frameCount = 4 /\ Len(call.audioSegments) = 5
    /\ Len(call.result) = 4

\* C13: with at least one frame and segments of strictly positive duration,
\* every entry of calculateFrameDurations is strictly positive.
C13_NoZeroFrameDuration ==
    ( /\ Returned("calculateFrameDurations")
      /\ call.frameCount >= 1
      /\ \A j \in 1..Len(call.audioSegments) : call.audioSegments[j].duration > 0 )
        => \A i \in 1..Len(call.result) : call.result[i][1] > 0

\* C14: the segments of createTimingSegments start at 0 and each starts
\* where the one before it ends.
C14_SegmentsContiguous ==
    Returned("createTimingSegments")
        => LET segs == call.result
           IN  /\ segs # <<>> => segs[1].startTime = 0
               /\ \A i \in 1..(Len(segs) - 1) :
                     segs[i + 1].startTime = segs[i].startTime + segs[i].duration

\* narration, a pause, narration again
C14_Witness ==
    /\ Returned("createTimingSegments")
    /\ Len(call.result) >= 3
    /\ call.result[1].text # <<>> /\ call.result[2].text = <<>>
    /\ call.result[2].duration > 0 /\ call.result[3].startTime > call.result[2].startTime

\* C15: the end of the last segment of createTimingSegments is the total
\* estimated duration of the narrative, calculateTotalDuration.
C15_SegmentsEndAtTotalDuration ==
    (Returned("createTimingSegments") /\ call.result # <<>>)
        => Last(call.result).startTime + Last(call.result).duration
               = calculateTotalDuration(call.text, call.style)

\* the sum of the durations of the segments with index in S
RECURSIVE DurationOver(_, _)
DurationOver(segs, S) ==
    IF S = {} THEN 0
    ELSE LET j == CHOOSE j \in S : TRUE
         IN  segs[j].duration + DurationOver(segs, S \ {j})

DurationOfAll(segs) == DurationOver(segs, 1..Len(segs))

\* C16: with more frames than segments (and at least one segment) every
\* entry is (sum of the segment durations) / frameCount, and the entries sum
\* to the sum of the segment durations.
C16_EvenDistribution ==
    ( /\ Returned("calculateFrameDurations")
      /\ call.frameCount > Len(call.audioSegments)
      /\ call.audioSegments # <<>> )
        => LET total == DurationOfAll(call.audioSegments)
               ds == call.result
           IN  /\ \A i \in 1..Len(ds) :
                     ds[i][2] > 0 /\ ds[i][1] * call.frameCount = total * ds[i][2]
               /\ \A i \in 1..Len(ds) : ds[i][2] = ds[1][2]
               /\ ds # <<>> /\ SumNums(ds) = total * ds[1][2]

C16_Witness ==
    /\ Returned("calculateFrameDurations")
    /\ call.frameCount = 5 /\ Len(call.audioSegments) = 2
    /\ DurationOfAll(call.audioSegments) = 3 * SecUnits
    /\ call.result[5] = <<3 * SecUnits, 5>>

\* the segments frame i (from 1) covers when each frame takes k segments
GroupOf(i, k, n) == {j \in 1..n : (i - 1) * k < j /\ j <= i * k}

\* C17: with 1 <= frameCount <= n segments and k = ceil(n / frameCount),
\* entry i is the sum of the segments i*k .. min((i+1)*k, n) - 1, every
\* segment is counted in exactly one entry, and the entries sum to the sum of
\* all segment durations.
C17_SegmentsGroupedInOrder ==
    ( /\ Returned("calculateFrameDurations")
      /\ call.frameCount >= 1
      /\ call.frameCount <= Len(call.audioSegments) )
        => LET n == Len(call.audioSegments)
               f == call.frameCount
               k == CHOOSE k \in 1..n : k * f >= n /\ (k - 1) * f < n
               ds == call.result
           IN  /\ Len(ds) = f
               /\ \A i \in 1..f :
                     ds[i] = <<DurationOver(call.audioSegments, GroupOf(i, k, n)), 1>>
               /\ \A j \in 1..n : Cardinality({i \in 1..f : j \in GroupOf(i, k, n)}) = 1
               /\ SumNums(ds) = DurationOfAll(call.audioSegments)

\* 2 frames over 6 segments of total 10: two sums of 3 segments
C17_Witness ==
    /\ Returned("calculateFrameDurations")
    /\ call.frameCount = 2 /\ Len(call.audioSegments) = 6
    /\ DurationOfAll(call.audioSegments) = 10 * SecUnits
    /\ call.result = <<<<DurationOver(call.audioSegments, {1, 2, 3}), 1>>,
                       <<DurationOver(call.audioSegments, {4, 5, 6}), 1>>>>
    /\ call.result[1][1] + call.result[2][1] = 10 * SecUnits

\* C18: calculateFrameDurations(0, segments) is the empty list, and
\* calculateFrameDurations(N, []) is N entries of 3 seconds for N >= 1.
C18_EmptyAndDefaultLists ==
    Returned("calculateFrameDurations")
        => /\ call.frameCount = 0 => call.result = <<>>
           /\ (call.frameCount >= 1 /\ call.audioSegments = <<>>)
                => /\ Len(call.result) = call.frameCount
                   /\ \A i \in 1..Len(call.result) :
                         /\ call.result[i][2] > 0
                         /\ call.result[i][1] = 3 * SecUnits * call.result[i][2]

\* calculateFrameDurations(5, []) = [3, 3, 3, 3, 3]
C18_Witness ==
    /\ Returned("calculateFrameDurations")
    /\ call.frameCount = 5 /\ call.audioSegments = <<>>
    /\ call.result = [i \in 1..5 |-> <<3 * SecUnits, 1>>]

\* the result of the call compared with that of the next faster style
FasterThanNext ==
    /\ call.style = "beginner"
            => call.result > calculateSpeakingDuration(call.text, "technical")
    /\ call.style = "technical"
            => call.result > calculateSpeakingDuration(call.text, "overview")

\* C19 (as stated): for every text of more than 3 words the speaking
\* duration is strictly longer for beginner than for technical, and for
\* technical than for overview.
C19_StrictOrderAboveThreeWords ==
    (Returned("calculateSpeakingDuration") /\ WordCount(call.text) > 3)
        => FasterThanNext

\* C19 (amended): the strict order holds for every text of more than 5
\* words; for any text the order holds with >= in the place of >.
C19_StrictOrderAboveFiveWords ==
    Returned("calculateSpeakingDuration")
        => /\ WordCount(call.text) > 5 => FasterThanNext
           /\ call.style = "beginner"
                => call.result >= calculateSpeakingDuration(call.text, "technical")
           /\ call.style = "technical"
                => call.result >= calculateSpeakingDuration(call.text, "overview")

C19_Witness ==
    /\ Returned("calculateSpeakingDuration")
    /\ WordCount(call.text) = 6 /\ call.style = "technical"
    /\ call.result > 2 * SecUnits
    /\ call.result > calculateSpeakingDuration(call.text, "overview")

\* C20: when hasAudio is false at the timing stage, the duration list has
\* one entry per frame, 3 seconds for the first and the last frame and 5
\* seconds for every other, whatever the narration is.
C20_SilentFallbackPattern ==
    \A r \in Runs :
        LET me == runs[r]
            n == Len(me.htmlFrames)
        IN  (Has(me.steps, "timing") /\ ~me.hasAudio)
                => /\ n >= 1 /\ Len(me.frameDurations) = n
                   /\ \A i \in 1..n :
                         me.frameDurations[i] =
                             IF i = 1 \/ i = n THEN <<3 * SecUnits, 1>>
                                              ELSE <<5 * SecUnits, 1>>

\* a 3-frame run whose synthesis failed, with markers in its narration
C20_Witness ==
    \E r \in Runs :
        /\ Has(runs[r].steps, "timing") /\ ~runs[r].hasAudio
        /\ ContainsMarker(runs[r].narrative)
        /\ runs[r].frameDurations
              = <<<<3 * SecUnits, 1>>, <<5 * SecUnits, 1>>, <<3 * SecUnits, 1>>>>

(* ------------------- properties of the tool handlers ------------------- *)

\* C21: an agent reply that is no JSON or lacks a required field is rejected
\* where it is parsed: the request fails in that stage, no later stage runs,
\* and the error message quotes an excerpt of the raw reply in both cases.
C21_BadReplyRejectedWithExcerpt ==
    \A r \in Runs :
        LET me == runs[r]
        IN  me.badReply # "none"
                => /\ me.pc = "failed" /\ me.error \in {"analysis", "script"}
                   /\ me.steps = <<>> /\ me.tempDir = NoPath
                   /\ me.error = "analysis" => me.calls = <<"extractor", "agent">>
                   /\ me.error = "script" => me.calls = <<"extractor", "agent", "agent">>
                   /\ me.response.status = "error"
                   /\ me.response.excerpt

\* C22: a generate_walkthrough request for a commit without commitHash is
\* rejected before any extractor, agent call or video step, and the
\* structured failure names the commitHash field.
C22_MissingCommitHashRejectedFirst ==
    \A r \in Runs :
        LET me == runs[r]
        IN  ( /\ me.tool = "generate_walkthrough"
              /\ me.target.type = "commit" /\ ~me.target.hasHash )
                => /\ me.pc = "failed"
                   /\ me.calls = <<>> /\ me.steps = <<>> /\ me.tempDir = NoPath
                   /\ ~\E e \in fs : e.by = r
                   /\ me.response.status = "error"
                   /\ me.response.error = "commitHash_required"
                   /\ me.response.stage = "analysis"

C22_Witness ==
    \E r \in Runs :
        /\ runs[r].tool = "generate_walkthrough" /\ runs[r].pc = "failed"
        /\ runs[r].target = [type |-> "commit", hasHash |-> FALSE]
        /\ runs[r].response.error = "commitHash_required"

\* the sum of the numerators of the entries with index in S
RECURSIVE NumeratorsOver(_, _)
NumeratorsOver(ds, S) ==
    IF S = {} THEN 0
    ELSE LET i == CHOOSE i \in S : TRUE
         IN  ds[i][1] + NumeratorsOver(ds, S \ {i})

\* C23: a successful run of generateVideo returns the requested output path,
\* the sum of the frame durations of the timing stage (the list that went to
\* the encoder), the number of frames generated and the hasAudio flag of the
\* audio stage.
C23_ResultReportsTheRun ==
    \A r \in Runs :
        LET me == runs[r]
            ds == me.frameDurations
        IN  (IsVideoTool(me) /\ me.pc \in {"return", "done"})
                => /\ me.result.videoPath = OutputPath(me)
                   /\ me.concatDurations = ds /\ ds # <<>>
                   /\ \A i \in 1..Len(ds) : ds[i][2] = ds[1][2]
                   /\ me.result.duration[1] * ds[1][2]
                        = NumeratorsOver(ds, 1..Len(ds)) * me.result.duration[2]
                   /\ me.result.frameCount = Len(me.htmlFrames)
                   /\ me.result.frameCount = Len(ds)
                   /\ me.result.frameCount = FrameCount(me)
                   /\ me.result.hasAudio = me.hasAudio
                   /\ me.hasAudio <=> me.audioOutcome = "ok"

\* a narrated 3-frame run whose segment durations differ from its audio estimate
C23_Witness ==
    \E r \in Runs :
        /\ runs[r].pc = "done" /\ runs[r].hasAudio /\ runs[r].result.frameCount = 3
        /\ runs[r].result.duration[1] # runs[r].audioDuration * runs[r].result.duration[2]
        /\ runs[r].response.duration = runs[r].result.duration

\* the frames and segments of a call that takes the grouping loop
Grouping ==
    /\ Returned("calculateFrameDurations")
    /\ call.frameCount >= 1
    /\ call.frameCount <= Len(call.audioSegments)

\* the groups are consecutive runs of segments, in order, and every segment
\* is in exactly one of them
GroupsPartitionInOrder ==
    LET n == Len(call.audioSegments)
        g == call.groups
    IN  /\ Len(g) = call.frameCount
        /\ \A j \in 1..n : Cardinality({i \in 1..Len(g) : j \in g[i]}) = 1
        /\ \A i \in 1..Len(g) : g[i] \subseteq 1..n
        /\ \A i \in 1..Len(g) : \A a, b \in g[i] : \A c \in 1..n :
              (a < c /\ c < b) => c \in g[i]
        /\ \A i1, i2 \in 1..Len(g) : \A a \in g[i1], b \in g[i2] :
              i1 < i2 => a < b
        /\ \A i \in 1..Len(g) :
              call.result[i] = <<DurationOver(call.audioSegments, g[i]), 1>>

PieceOf(text, p) ==
    LET ms == MarkerMatches(text, 1)
    IN  IF p % 2 = 0 THEN ms[p \div 2]
        ELSE << IF p = 1 THEN 1 ELSE ms[(p - 1) \div 2][2] + 1,
                IF p = 2 * Len(ms) + 1 THEN Len(text) ELSE ms[(p + 1) \div 2][1] - 1 >>

PieceText(text, p) == SubTokens(text, PieceOf(text, p)[1], PieceOf(text, p)[2])

\* the pieces that get a segment: the markers, and the runs that are not
\* white space only
SegmentPieces(text) ==
    {p \in 1..(2 * Len(MarkerMatches(text, 1)) + 1) :
        p % 2 = 0 \/ \E i \in 1..Len(PieceText(text, p)) : PieceText(text, p)[i] # "s"}

\* C25: createTimingSegments emits, in the order of the input, one segment
\* per marker (empty text, N/1000 seconds) and one per plain-text run that is
\* not white space only (trimmed text, its speaking duration), and none for a
\* white-space-only run; the durations of the empty-text segments sum to the
\* totalSilence of parseSilenceMarkers.
C25_OneSegmentPerPiece ==
    Returned("createTimingSegments")
        => LET text == call.text
               segs == call.result
               kept == SegmentPieces(text)
               Nth(k) == CHOOSE p \in kept : Cardinality({q \in kept : q <= p}) = k
               silent == {i \in 1..Len(segs) : segs[i].text = <<>>}
           IN  /\ Len(segs) = Cardinality(kept)
               /\ \A k \in 1..Len(segs) :
                     IF Nth(k) % 2 = 0
                     THEN /\ segs[k].text = <<>>
                          /\ segs[k].duration
                               = MarkerMs(text, PieceOf(text, Nth(k))) * (SecUnits \div 1000)
                     ELSE /\ segs[k].text = Trim(PieceText(text, Nth(k)))
                          /\ segs[k].text # <<>>
                          /\ segs[k].duration
                               = calculateSpeakingDuration(segs[k].text, call.style)
               /\ DurationOver(segs, silent) = parseSilenceMarkers(text).totalSilence

\* a white-space-only run, a marker, a word: " [[slnc 1]]w"
C25_Witness ==
    /\ Returned("createTimingSegments")
    /\ call.text = <<"s", "O", "1", "C", "w">>
    /\ Len(call.result) = 2
    /\ call.result[1].text = <<>> /\ call.result[2].text = <<"w">>

(* --------------------- properties of generateVideo --------------------- *)

\* the collaborators of the steps after step `step`
LaterCollaborators(step) ==
    CASE step = "frames" -> {"tts", "renderer", "ffmpegCheck", "encoder"}
      [] step = "audio"  -> {"renderer", "ffmpegCheck", "encoder"}
      [] step \in {"timing", "render"} -> {"ffmpegCheck", "encoder"}
      [] OTHER -> {}

\* a fatal failure has occurred in the run
HasFailed(me) == me.error # "none" \/ me.ffmpeg = "missing"

\* C26: once a fatal failure has occurred in a run, no collaborator of a later
\* stage is invoked and no later step starts: after a frame-generation
\* failure neither speech synthesis, rendering nor the encoder runs, after a
\* rendering failure no encoder check or encode runs, and after an
\* encoder-unavailable answer the encode command is never issued.
C26_NothingRunsAfterFailure ==
    /\ [](\A r \in Runs :
            LET me == runs[r]
            IN  /\ (IsVideoTool(me) /\ me.error \in {"frames", "initialize", "render"})
                    => \A c \in LaterCollaborators(me.step) : ~Has(me.calls, c)
                /\ (IsVideoTool(me) /\ me.ffmpeg = "missing")
                    => /\ ~Has(me.calls, "encoder") /\ me.pc \in {"catch", "failed"}
                       /\ me.error = "ffmpeg_missing"
                /\ (IsVideoTool(me) /\ me.error # "none") => me.pc \in {"catch", "failed"})
    /\ [][\A r \in Runs :
            (IsVideoTool(runs[r]) /\ HasFailed(runs[r]))
                => /\ runs'[r].calls = runs[r].calls
                   /\ runs'[r].steps = runs[r].steps]_vars

\* the encoder was found missing after frames, speech and rendering ran
C26_Witness ==
    \E r \in Runs :
        /\ runs[r].pc = "failed" /\ runs[r].ffmpeg = "missing"
        /\ runs[r].calls = <<"frameGenerator", "tts", "renderer", "ffmpegCheck">>

\* C27: the encoder gets an audio input exactly when hasAudio is true at the
\* end of the audio stage: the run's narration file then, no audio path
\* otherwise.
C27_AudioInputIffHasAudio ==
    \A r \in Runs :
        LET me == runs[r]
        IN  (IsVideoTool(me) /\ Has(me.calls, "encoder"))
                => /\ me.hasAudio => me.encoderAudio = AudioPath(me)
                   /\ ~me.hasAudio => me.encoderAudio = NoPath
                   /\ me.hasAudio <=> me.audioOutcome = "ok"

\* an empty narration file is on disk, and the encoder is not given it
C27_Witness ==
    \E r \in Runs :
        /\ IsVideoTool(runs[r]) /\ Has(runs[r].calls, "encoder")
        /\ runs[r].audioOutcome = "empty" /\ ~runs[r].hasAudio
        /\ runs[r].encoderAudio = NoPath

\* C28: in a run of generateVideo that reaches compilation the list of frame
\* durations is as long as the list of rendered PNG frames, with and without
\* audio; compileVideo never raises its count-mismatch (or no-frames) error.
C28_DurationsMatchFrames ==
    \A r \in Runs :
        LET me == runs[r]
        IN  IsVideoTool(me)
                => /\ Has(me.steps, "compile")
                        => /\ Len(me.frameDurations) = Len(me.pngFrames)
                           /\ Len(me.pngFrames) = Len(me.htmlFrames)
                           /\ Len(me.pngFrames) = FrameCount(me)
                   /\ me.error \notin {"count_mismatch", "no_frames"}

\* 3 frames timed from the 4 segments of a narration with two markers
C28_Witness ==
    \E r \in Runs :
        /\ IsVideoTool(runs[r]) /\ runs[r].pc = "encode" /\ runs[r].hasAudio
        /\ Len(runs[r].pngFrames) = 3 /\ Len(runs[r].frameDurations) = 3
        /\ Len(createTimingSegments(runs[r].narrative, runs[r].style)) = 4

\* C29: when a run of generateVideo ends after compiler.initialize() has
\* succeeded, compiler.close() has been called: the browser is released.
C29_BrowserAlwaysClosed ==
    \A r \in Runs :
        (IsVideoTool(runs[r]) /\ Ended(runs[r])) => runs[r].browser = "closed"

\* the speech-synthesis engine was run and did not produce a usable file
EngineFailed(me) == Has(me.calls, "tts") /\ me.audioOutcome # "ok"

\* C30: a generate_video_from_script run (on its own) whose engine works
\* hands text of the script to speech synthesis, and has hasAudio = true.
C30_FromScriptHasAudio ==
    \A r \in Runs :
        LET me == runs[r]
        IN  ( /\ ~overlap /\ me.tool = "generate_video_from_script"
              /\ Has(me.steps, "timing") /\ ~EngineFailed(me) )
                => /\ Has(me.calls, "tts")
                   /\ me.ttsText = ReplaceMarkers(me.narrative)
                   /\ me.hasAudio

====
